---- MODULE Spec2Model ----
(***************************************************************************)
(* Model of the dividend-history scraper: dividend_parser.py               *)
(* (get_dividend_history and its command-line entry point) and             *)
(* parse_all_dividends.py (the batch run over a ticker list).              *)
(*                                                                         *)
(* Text is modelled character by character: a string is a sequence of      *)
(* one-character strings.  The module is ASCII, so the Cyrillic literals   *)
(* of the source are written in Latin transliteration, letter case kept:   *)
(*   "zakrytie reestra"  the registry-closing label of the date pattern    *)
(*   "Period vyplaty"    the header label of the period column             *)
(*   "ITOGO"             the token of a total row                          *)
(*   "RESHENIE DIVIDENDY NE VYPLACHIVAT"  the do-not-pay sentinel          *)
(*   "rub."              the currency suffix                               *)
(*   "period", "dividend", "vyplat", "akci"  the table keywords            *)
(* and the Cyrillic small letter byelorussian-ukrainian i is written "j".  *)
(***************************************************************************)
EXTENDS Integers, Sequences, FiniteSets, TLC

(***************************************************************************)
(* Bounds of the model.                                                    *)
(***************************************************************************)
\* data rows of a table, after its header row
MaxRows == 2
\* tables of a document served to the batch run
MaxTables == 2
\* tickers of the batch list
MaxTickers == 2

(***************************************************************************)
(* Characters and the string methods the source uses.                      *)
(***************************************************************************)
Digits == {"0", "1", "2", "3", "4", "5", "6", "7", "8", "9"}

\* what \d matches
IsDigit(c) == c \in Digits

\* what \s matches, and what str.strip() strips
IsSpace(c) == c \in {" ", "\n", "\t"}

DigitVal(c) ==
    CASE c = "0" -> 0 [] c = "1" -> 1 [] c = "2" -> 2 [] c = "3" -> 3
      [] c = "4" -> 4 [] c = "5" -> 5 [] c = "6" -> 6 [] c = "7" -> 7
      [] c = "8" -> 8 [] c = "9" -> 9

UpperCase == <<"A", "B", "C", "D", "E", "F", "G", "H", "I", "J", "K", "L", "M",
               "N", "O", "P", "Q", "R", "S", "T", "U", "V", "W", "X", "Y", "Z">>
LowerCase == <<"a", "b", "c", "d", "e", "f", "g", "h", "i", "j", "k", "l", "m",
               "n", "o", "p", "q", "r", "s", "t", "u", "v", "w", "x", "y", "z">>

LowerChar(c) ==
    IF \E k \in 1..26 : UpperCase[k] = c
    THEN LowerCase[CHOOSE k \in 1..26 : UpperCase[k] = c]
    ELSE c

\* str.lower()
Lower(s) == [k \in 1..Len(s) |-> LowerChar(s[k])]

\* s[i:i+n] == sub, with i counted from 1
MatchAt(s, i, sub) ==
    /\ i >= 1
    /\ i + Len(sub) - 1 <= Len(s)
    /\ \A k \in 1..Len(sub) : s[i + k - 1] = sub[k]

\* sub in s
Contains(s, sub) == \E i \in 1..(Len(s) + 1) : MatchAt(s, i, sub)

\* str.strip()
Strip(s) ==
    IF \A k \in 1..Len(s) : IsSpace(s[k])
    THEN <<>>
    ELSE LET a == CHOOSE i \in 1..Len(s) :
                     /\ ~IsSpace(s[i])
                     /\ \A k \in 1..(i - 1) : IsSpace(s[k])
             b == CHOOSE i \in 1..Len(s) :
                     /\ ~IsSpace(s[i])
                     /\ \A k \in (i + 1)..Len(s) : IsSpace(s[k])
         IN  SubSeq(s, a, b)

\* str.replace(old, new): every non-overlapping occurrence, left to right
RECURSIVE Replace(_, _, _)
Replace(s, old, new) ==
    IF Len(s) < Len(old) \/ old = <<>>
    THEN s
    ELSE IF MatchAt(s, 1, old)
         THEN new \o Replace(SubSeq(s, Len(old) + 1, Len(s)), old, new)
         ELSE <<s[1]>> \o Replace(Tail(s), old, new)

\* str.zfill(2)
Zfill2(s) == IF Len(s) < 2 THEN <<"0">> \o s ELSE s

\* int() of a run of decimal digits
RECURSIVE IntOf(_)
IntOf(s) ==
    IF s = <<>> THEN 0
    ELSE 10 * IntOf(SubSeq(s, 1, Len(s) - 1)) + DigitVal(s[Len(s)])

\* ' '.join(parts)
RECURSIVE JoinSpace(_)
JoinSpace(parts) ==
    IF parts = <<>> THEN <<>>
    ELSE IF Len(parts) = 1 THEN parts[1]
    ELSE parts[1] \o <<" ">> \o JoinSpace(Tail(parts))

\* the concatenation of a sequence of strings
RECURSIVE Concat(_)
Concat(parts) == IF parts = <<>> THEN <<>> ELSE parts[1] \o Concat(Tail(parts))

\* s[q] is a whitespace character
SpaceAt(s, q) == q >= 1 /\ q <= Len(s) /\ IsSpace(s[q])

\* s[i:i+n] is n digits
AllDigits(s, i, n) == /\ i >= 1
                      /\ i + n - 1 <= Len(s)
                      /\ \A k \in i..(i + n - 1) : IsDigit(s[k])

(***************************************************************************)
(* The literals of the source.                                             *)
(***************************************************************************)
ClosingLabel == <<"z", "a", "k", "r", "y", "t", "i", "e", " ",
                  "r", "e", "e", "s", "t", "r", "a", " ">>
HeaderLabel == <<"P", "e", "r", "i", "o", "d", " ", "v", "y", "p", "l", "a", "t", "y">>
TotalToken == <<"I", "T", "O", "G", "O">>
Sentinel == <<"R", "E", "S", "H", "E", "N", "I", "E", " ",
              "D", "I", "V", "I", "D", "E", "N", "D", "Y", " ", "N", "E", " ",
              "V", "Y", "P", "L", "A", "C", "H", "I", "V", "A", "T">>
CurrencySuffix == <<"r", "u", "b", ".">>
Keywords == { <<"p", "e", "r", "i", "o", "d">>,
              <<"d", "i", "v", "i", "d", "e", "n", "d">>,
              <<"v", "y", "p", "l", "a", "t">>,
              <<"a", "k", "c", "i">> }
HalfYearPhrases == { <<"i", " ", "p", "o", "l", "u", "g", "o", "d", "i", "e">>,
                     <<"1", " ", "p", "o", "l", "u", "g", "o", "d", "i", "e">>,
                     <<"j", " ", "p", "o", "l", "u", "g", "o", "d", "i", "e">> }
NineMonthPhrases == { <<"9", " ", "m", "e", "s", "y", "a", "c", "e", "v">>,
                      <<"9", " ", "m", "e", "s">> }
SixMonthPhrases == { <<"6", " ", "m", "e", "s", "y", "a", "c", "e", "v">>,
                     <<"6", " ", "m", "e", "s">> }
ThreeMonthPhrases == { <<"3", " ", "m", "e", "s", "y", "a", "c", "a">>,
                       <<"3", " ", "m", "e", "s">> }

\* the value of "closing_date" when the period cell holds no date (None / NaT)
NoDate == <<>>
\* the value of "year" when no year is found (None)
NoYear == <<>>

(***************************************************************************)
(* Period field: closing date and payment year (get_dividend_history).     *)
(***************************************************************************)
\* a if it is a match, else b (the fallback of a failed search)
OrElse(a, b) == IF a # <<>> THEN a ELSE b

\* the least element of a non-empty set of integers
Least(S) == CHOOSE x \in S : \A y \in S : x <= y

\* the length of a match of \d{1,2}\.\d{2}\.\d{4} starting at i, 0 when none
\* (the greedy two-digit day is tried first, then the one-digit day)
DateLenAt(s, i) ==
    IF /\ AllDigits(s, i, 2) /\ MatchAt(s, i + 2, <<".">>)
       /\ AllDigits(s, i + 3, 2) /\ MatchAt(s, i + 5, <<".">>)
       /\ AllDigits(s, i + 6, 4)
    THEN 10
    ELSE IF /\ AllDigits(s, i, 1) /\ MatchAt(s, i + 1, <<".">>)
            /\ AllDigits(s, i + 2, 2) /\ MatchAt(s, i + 4, <<".">>)
            /\ AllDigits(s, i + 5, 4)
         THEN 9
         ELSE 0

\* group 1 of the leftmost match, given the positions where the date of a match starts
DateAmong(s, starts) ==
    IF starts = {} THEN <<>>
    ELSE SubSeq(s, Least(starts), Least(starts) + DateLenAt(s, Least(starts)) - 1)

\* re.search(r'zakrytie reestra (\d{1,2}\.\d{2}\.\d{4})', period): group 1 or <<>>
LabeledDate(s) ==
    DateAmong(s, { i + Len(ClosingLabel) : i \in
                     { j \in 1..Len(s) : /\ MatchAt(s, j, ClosingLabel)
                                         /\ DateLenAt(s, j + Len(ClosingLabel)) > 0 } })

\* re.search(r'(\d{1,2}\.\d{2}\.\d{4})', period): group 1 or <<>>
BareDate(s) == DateAmong(s, { i \in 1..Len(s) : DateLenAt(s, i) > 0 })

\* str.split('.')
RECURSIVE SplitDot(_)
SplitDot(s) ==
    IF \A k \in 1..Len(s) : s[k] # "."
    THEN <<s>>
    ELSE <<SubSeq(s, 1, Least({ k \in 1..Len(s) : s[k] = "." }) - 1)>>
         \o SplitDot(SubSeq(s, Least({ k \in 1..Len(s) : s[k] = "." }) + 1, Len(s)))

\* f"{day.zfill(2)}.{month}.{year}" of the matched date, NoDate for no match
PadDay(m) ==
    IF m = <<>> THEN NoDate
    ELSE Zfill2(SplitDot(m)[1]) \o <<".">> \o SplitDot(m)[2] \o <<".">> \o SplitDot(m)[3]

\* the closing_date string of a normalised period text: the labelled date, else the
\* bare date, its day zero-padded; NoDate when the text holds neither
ClosingDateText(period) == PadDay(OrElse(LabeledDate(period), BareDate(period)))

\* the period text with the year of its date left in (a variant of StripDateYear
\* against which the property of C6 is tested)
KeepDateYear(period, cd) == period

\* if closing_date: period = period.replace(closing_date.split('.')[-1], '')
StripDateYear(period, cd) ==
    IF cd # NoDate
    THEN Replace(period, SubSeq(cd, Len(cd) - 3, Len(cd)), <<>>)
    ELSE period

\* re.search(r'(?:^|\s)(\d{4})(?:\s|$)', s): group 1 or <<>>
YearToken(s) ==
    LET endsAt(e) == e > Len(s) \/ SpaceAt(s, e)
        after == { p \in 1..Len(s) : /\ SpaceAt(s, p)
                                     /\ AllDigits(s, p + 1, 4)
                                     /\ endsAt(p + 5) }
    IN  IF AllDigits(s, 1, 4) /\ endsAt(5) THEN SubSeq(s, 1, 4)
        ELSE IF after # {} THEN SubSeq(s, Least(after) + 1, Least(after) + 4)
        ELSE <<>>

\* re.search(r'(\d{4})', s): group 1 or <<>>
AnyFourDigits(s) ==
    LET pos == { i \in 1..Len(s) : AllDigits(s, i, 4) }
    IN  IF pos = {} THEN <<>> ELSE SubSeq(s, Least(pos), Least(pos) + 3)

\* the year string: the standalone token of the working text, else any four digits of
\* it, else any four digits of the original cell text; NoYear when none
YearText(working, original) ==
    OrElse(YearToken(working), OrElse(AnyFourDigits(working), AnyFourDigits(original)))

\* the period type, read from the working text (the date's year already removed)
PeriodType(working) ==
    LET has(phrases) == \E ph \in phrases : Contains(Lower(working), ph)
    IN  IF has(HalfYearPhrases) THEN "half year"
        ELSE IF has(NineMonthPhrases) THEN "9 months"
        ELSE IF has(SixMonthPhrases) THEN "6 months"
        ELSE IF has(ThreeMonthPhrases) THEN "3 months"
        ELSE "full year"

\* the days of a month of the Gregorian calendar
DaysInMonth(m, y) ==
    IF m \in {4, 6, 9, 11} THEN 30
    ELSE IF m = 2
         THEN IF (y % 4 = 0 /\ y % 100 # 0) \/ y % 400 = 0 THEN 29 ELSE 28
         ELSE 31

\* day, month and year of a DD.MM.YYYY string
DateNumbers(cd) == <<IntOf(SubSeq(cd, 1, 2)), IntOf(SubSeq(cd, 4, 5)), IntOf(SubSeq(cd, 7, 10))>>

\* <<day, month, year>> is a calendar date
IsCalendarDate(d) ==
    d[2] \in 1..12 /\ d[1] >= 1 /\ d[1] <= DaysInMonth(d[2], d[3]) /\ d[3] >= 1

\* pd.to_datetime(closing_date, format='%d.%m.%Y') raises ValueError
DateRaises(cd) == cd # NoDate /\ ~IsCalendarDate(DateNumbers(cd))

\* pd.to_datetime(closing_date, format='%d.%m.%Y') if closing_date else pd.NaT:
\* <<day, month, year>>, or NoDate for NaT
ToDatetime(cd) == IF cd = NoDate THEN NoDate ELSE DateNumbers(cd)

\* the fields read from the period cell, given the stripped cell text (original), the
\* closing_date string and the working text of the year search
PeriodFields(original, cd, working) ==
    [header       |-> original = HeaderLabel,
     total        |-> Contains(original, TotalToken),
     closing_date |-> cd,
     year         |-> YearText(working, original),
     period_type  |-> PeriodType(working)]

PeriodOfNormal(original, period, cd) ==
    PeriodFields(original, cd, StripDateYear(period, cd))

PeriodOfStripped(original, period) ==
    PeriodOfNormal(original, period, ClosingDateText(period))

\* the period cell of a row: cells[0].text.strip(), then .replace('\n', ' ').strip(),
\* then the date and the year searches
ParsePeriod(cell) ==
    PeriodOfStripped(Strip(cell), Strip(Replace(Strip(cell), <<"\n">>, <<" ">>)))

(***************************************************************************)
(* Amount field (get_dividend_history).                                    *)
(***************************************************************************)
\* the matches of (\d{1,3}(?:\s\d{3})*(?:,\d+)?) starting at i, each <<n, k, m>>:
\* n leading digits, k groups of a whitespace and three digits, m decimal digits
\* after a comma (0: no decimal part); with suffix, followed by \s*rub\.
AmountMatches(s, i, suffix) ==
    { c \in (1..3) \X (0..(Len(s) \div 4)) \X (0..Len(s)) :
        LET e == i + c[1] + 4 * c[2]
            f == IF c[3] > 0 THEN i + c[1] + 4 * c[2] + 1 + c[3] ELSE i + c[1] + 4 * c[2]
        IN  /\ AllDigits(s, i, c[1])
            /\ \A g \in 1..c[2] : /\ SpaceAt(s, i + c[1] + 4 * (g - 1))
                                  /\ AllDigits(s, i + c[1] + 4 * (g - 1) + 1, 3)
            /\ c[3] > 0 => (MatchAt(s, e, <<",">>) /\ AllDigits(s, e + 1, c[3]))
            /\ suffix => \E w \in 0..Len(s) :
                            /\ \A q \in f..(f + w - 1) : SpaceAt(s, q)
                            /\ MatchAt(s, f + w, CurrencySuffix) }

\* the match the backtracking search takes first: greedy in the leading digits, then
\* in the groups, then in the decimal part
FirstMatch(cands) ==
    CHOOSE c \in cands : \A o \in cands :
        \/ c[1] > o[1]
        \/ c[1] = o[1] /\ c[2] > o[2]
        \/ c[1] = o[1] /\ c[2] = o[2] /\ c[3] >= o[3]

\* the text of the match <<n, k, m>> starting at i
MatchText(s, i, c) ==
    SubSeq(s, i, i + c[1] + 4 * c[2] + (IF c[3] > 0 THEN c[3] + 1 ELSE 0) - 1)

\* group 1 of the match at the leftmost of the positions pos
AmountAmong(s, pos, suffix) ==
    IF pos = {} THEN <<>>
    ELSE MatchText(s, Least(pos), FirstMatch(AmountMatches(s, Least(pos), suffix)))

\* re.search of the amount pattern (with or without the currency suffix): group 1,
\* or <<>> when nothing matches
AmountSearch(s, suffix) ==
    AmountAmong(s, { i \in 1..Len(s) : AmountMatches(s, i, suffix) # {} }, suffix)

\* trailing zeros of a fraction dropped
RECURSIVE DropTrailingZeros(_)
DropTrailingZeros(s) ==
    IF s # <<>> /\ s[Len(s)] = "0" THEN DropTrailingZeros(SubSeq(s, 1, Len(s) - 1)) ELSE s

\* a float, as the exact decimal num / 10^exp of its integer digits and its fraction
Decimal(int, frac) == [num |-> IntOf(int \o frac), exp |-> Len(frac)]

Zero == [num |-> 0, exp |-> 0]

\* float(text) raises ValueError: text holds a character that is no digit and no "."
\* (a whitespace other than " " that \s matched and replace(' ', '') left in)
FloatRaises(text) == \E k \in 1..Len(text) : ~IsDigit(text[k]) /\ text[k] # "."

\* float(text) of digits with at most one "."
FloatOfParts(parts) ==
    Decimal(parts[1], IF Len(parts) > 1 THEN DropTrailingZeros(parts[2]) ELSE <<>>)

FloatOf(text) == FloatOfParts(SplitDot(text))

\* "RESHENIE DIVIDENDY NE VYPLACHIVAT" in dividend
IsSentinel(cell) == Contains(cell, Sentinel)

\* dividend_value.replace(' ', '').replace(',', '.')
Normalize(m) == Replace(Replace(m, <<" ">>, <<>>), <<",">>, <<".">>)

\* the amount matched in a dividend cell (with the currency suffix, else without),
\* normalised; <<>> when no number is found
AmountText(cell) == Normalize(OrElse(AmountSearch(cell, TRUE), AmountSearch(cell, FALSE)))

\* the outcome of a matched amount text: "drop" when there is none (the continue),
\* "raise" when float() fails, else "value" and the float
AmountOfText(text) ==
    IF text = <<>> THEN [kind |-> "drop", value |-> Zero]
    ELSE IF FloatRaises(text) THEN [kind |-> "raise", value |-> Zero]
    ELSE [kind |-> "value", value |-> FloatOf(text)]

\* the amount of a dividend cell: 0.0 for the sentinel, else the matched number
ParseAmount(cell) ==
    IF IsSentinel(cell) THEN [kind |-> "value", value |-> Zero]
    ELSE AmountOfText(AmountText(cell))

(***************************************************************************)
(* One table row (the body of the row loop of get_dividend_history).       *)
(* A row is the sequence of the texts of its cells.                        *)
(***************************************************************************)
\* the record appended for a share class (row_data / preferred_row_data)
RowRecord(p, a) ==
    [closing_date   |-> ToDatetime(p.closing_date),
     year           |-> IntOf(p.year),
     period_type    |-> p.period_type,
     dividend_value |-> a.value]

\* what the row does to the ordinary sequence, given its period fields p and the
\* amount a of its ordinary cell:
\*   "skip"   header or total row       "noyear" no year resolved (continue)
\*   "drop"   no amount (continue)      "raise"  an exception leaves the loop
\*   "append" a record is appended
OrdinaryOutcome(p, a) ==
    IF p.header \/ p.total THEN "skip"
    ELSE IF p.year = NoYear THEN "noyear"
    ELSE IF a.kind = "drop" THEN "drop"
    ELSE IF DateRaises(p.closing_date) \/ a.kind = "raise" THEN "raise"
    ELSE "append"

\* what the row does to the preferred sequence, given the ordinary outcome o, whether
\* the preferred cell is read (has_preferred_shares and len(cells) >= 3) and its
\* amount b; the cell is reached only after the ordinary record was appended:
\*   "none" not reached or not read, "drop", "raise", "append" as above
PreferredOutcome(o, read, b) ==
    IF o # "append" \/ ~read THEN "none"
    ELSE IF b.kind = "drop" THEN "drop"
    ELSE IF b.kind = "raise" THEN "raise"
    ELSE "append"

\* the effect of a row with at least two cells, from its parsed cells
EffectOf(p, a, read, b) ==
    [ord     |-> OrdinaryOutcome(p, a),
     pref    |-> PreferredOutcome(OrdinaryOutcome(p, a), read, b),
     ordrec  |-> RowRecord(p, a),
     prefrec |-> RowRecord(p, b)]

\* a row with fewer than two cells is passed over
NoEffect ==
    [ord |-> "skip", pref |-> "none",
     ordrec |-> [closing_date |-> NoDate, year |-> 0, period_type |-> "", dividend_value |-> Zero],
     prefrec |-> [closing_date |-> NoDate, year |-> 0, period_type |-> "", dividend_value |-> Zero]]

\* the effect of one row, hp the sticky flag before it
RowEffect(cells, hp) ==
    IF Len(cells) < 2 THEN NoEffect
    ELSE EffectOf(ParsePeriod(cells[1]),
                  ParseAmount(Strip(cells[2])),
                  (hp \/ Len(cells) >= 3) /\ Len(cells) >= 3,
                  IF Len(cells) >= 3 THEN ParseAmount(Strip(cells[3]))
                  ELSE [kind |-> "drop", value |-> Zero])

\* df.sort_values('year', ascending=False): insertion of r into a sequence sorted by
\* year, descending, after the records of the same year
RECURSIVE InsertByYear(_, _)
InsertByYear(sorted, r) ==
    IF sorted = <<>> THEN <<r>>
    ELSE IF sorted[1].year >= r.year
         THEN <<sorted[1]>> \o InsertByYear(Tail(sorted), r)
         ELSE <<r>> \o sorted

RECURSIVE SortByYearDesc(_)
SortByYearDesc(recs) ==
    IF recs = <<>> THEN <<>>
    ELSE InsertByYear(SortByYearDesc(SubSeq(recs, 1, Len(recs) - 1)), recs[Len(recs)])

(***************************************************************************)
(* Table locator (get_dividend_history).  A table is the sequence of its   *)
(* rows; a document is the sequence of its tables, in document order.      *)
(***************************************************************************)
\* row.text.strip().lower() of each row, joined by ' '
TableText(table) ==
    JoinSpace([k \in 1..Len(table) |-> Lower(Strip(Concat(table[k])))])

\* a keyword in the row texts as they are written, not lower-cased (a variant of
\* HasKeyword against which the property of C10 is tested)
HasKeywordAsWritten(table) ==
    \E kw \in Keywords :
        Contains(JoinSpace([k \in 1..Len(table) |-> Strip(Concat(table[k]))]), kw)

\* any(keyword in table_text for keyword in [...])
HasKeyword(table) == \E kw \in Keywords : Contains(TableText(table), kw)

(***************************************************************************)
(* Inputs: cell texts, rows, tables and documents the site may serve.      *)
(***************************************************************************)
SeqsUpTo(S, n) == UNION { [1..k -> S] : k \in 0..n }

\* period cells: a year, a year with a labelled closing date of another year (on a
\* second line), an impossible date with a year, no year at all, a total row, and
\* four digits with a leading zero
PeriodYear == <<"2", "0", "2", "4">>
PeriodDated == <<"2", "0", "2", "4", "\n", "z", "a", "k", "r", "y", "t", "i", "e", " ", "r", "e", "e", "s", "t", "r", "a", " ", "9", ".", "0", "7", ".", "2", "0", "2", "5">>
PeriodBadDate == <<"3", "1", ".", "0", "2", ".", "2", "0", "2", "5", " ", "2", "0", "2", "4">>
PeriodNoYear == <<"I", " ", "p", "o", "l", "u", "g", "o", "d", "i", "e">>
PeriodTotal == <<"I", "T", "O", "G", "O", " ", "2", "0", "2", "4">>
PeriodZeroYear == <<"0", "1", "2", "3">>
PeriodCells == {PeriodYear, PeriodDated, PeriodBadDate, PeriodNoYear, PeriodZeroYear}

\* dividend cells: an amount in roubles, the sentinel, and a dash (no amount)
AmountRub == <<"1", "0", " ", "r", "u", "b", ".">>
AmountNone == <<"-">>
DividendCells == {AmountRub, Sentinel, AmountNone}

HeaderRow == <<HeaderLabel, <<"D", "i", "v", "i", "d", "e", "n", "d">>>>

\* data rows: ordinary only, ordinary and preferred, a total row and a one-cell row
DataRows ==
    { <<p, d>> : p \in PeriodCells, d \in DividendCells }
    \cup { <<p, d, q>> : p \in PeriodCells, d \in DividendCells, q \in DividendCells }
    \cup { <<PeriodTotal, AmountRub>>, <<PeriodYear>> }

\* a table without any row, and a table none of whose rows holds a keyword
NoRowsTable == <<>>
OtherTable == << <<<<"K", "o", "n", "t", "a", "k", "t", "y">>, AmountRub>> >>

\* the dividend tables: the header row, then up to MaxRows data rows
DividendTables == { <<HeaderRow>> \o body : body \in SeqsUpTo(DataRows, MaxRows) }

\* pages without a dividend table
PlainPages == { <<>>, <<NoRowsTable>>, <<OtherTable>> }

\* pages with dividend histories of every kind of row
HistoryPages == PlainPages \cup { <<t>> : t \in DividendTables }

(* Amount cells holding one number: up to MaxLeadDigits leading digits, for up to
   three of them an optional thousands group after a single space, an optional
   decimal comma, with or without the currency suffix. *)
MaxLeadDigits == 4
LeadDigits == { SubSeq(<<"1", "2", "3", "4", "5", "6", "7", "8", "9">>, 1, n) : n \in 1..MaxLeadDigits }
ThousandsGroup == <<" ", "2", "3", "4">>
DecimalParts == { <<>>, <<",", "5">>, <<",", "5", "6">>, <<",", "5", "0">> }
SuffixParts == { <<>>, CurrencySuffix, <<" ">> \o CurrencySuffix }
NumberTexts ==
    { h \o d : h \in LeadDigits, d \in DecimalParts }
    \cup { h \o ThousandsGroup \o d : h \in { x \in LeadDigits : Len(x) <= 3 }, d \in DecimalParts }
NumberCells == { n \o x : n \in NumberTexts, x \in SuffixParts }

\* an amount whose thousands separator is a line break
AmountNewline == <<"1", "\n", "2", "3", "4", " ", "r", "u", "b", ".">>

\* pages with one data row, its ordinary cell an amount
AmountPages ==
    PlainPages \cup { << <<HeaderRow, <<PeriodYear, c>> >> >> : c \in NumberCells \cup {AmountNewline} }

(* Period cells holding one closing date and one payment year of another year: the
   date labelled or bare, its day of one or two digits, the year a token of its own
   or followed by "g.", before or after the date, on the same or on another line,
   alone or after a period phrase.  Each case names the date and the year written. *)
DayTexts == { <<"9">>, <<"0", "9">>, <<"2", "8">> }
MonthTexts == { <<"0", "7">>, <<"0", "2">> }
YearPairs == { << <<"2", "0", "2", "5">>, <<"2", "0", "2", "4">> >>, << <<"2", "0", "2", "4">>, <<"2", "0", "2", "5">> >>, << <<"2", "0", "2", "5">>, <<"2", "0", "2", "3">> >> }
PeriodCases ==
    { [cell |-> pre \o (IF first THEN lab \o d \o <<".">> \o m \o <<".">> \o y[1] \o sep \o y[2] \o g
                        ELSE y[2] \o g \o sep \o lab \o d \o <<".">> \o m \o <<".">> \o y[1]),
       date |-> <<IntOf(d), IntOf(m), IntOf(y[1])>>,
       year |-> IntOf(y[2])] :
      pre \in { <<>>, <<"9", " ", "m", "e", "s", " ">> }, first \in BOOLEAN, lab \in { <<>>, ClosingLabel },
      d \in DayTexts, m \in MonthTexts, y \in YearPairs, sep \in { <<" ">>, <<"\n">> },
      g \in { <<>>, <<"g", ".">> } }

\* pages with one data row, its period cell one of the cases
PeriodPages ==
    PlainPages \cup { << <<HeaderRow, <<c.cell, AmountRub>> >> >> : c \in PeriodCases }

\* a table whose only keyword is written in capitals, its row without a year
UpperTable == << <<<<"A", "K", "C", "I", "I">>, AmountRub>> >>

\* the tables of the pages served to the batch run: no rows, no keyword, a keyword in
\* capitals, a header alone, and two one-row histories
OneRowTable == <<HeaderRow, <<PeriodYear, AmountRub>> >>
OtherRowTable == <<HeaderRow, <<<<"2", "0", "2", "3">>, <<"5", ",", "5", " ", "r", "u", "b", ".">>>> >>
BatchTables == { NoRowsTable, OtherTable, UpperTable, <<HeaderRow>>, OneRowTable, OtherRowTable }
BatchPages == SeqsUpTo(BatchTables, MaxTables)

\* the documents the site may answer a request with
PagesOf(s) ==
    CASE s = "history" -> HistoryPages
      [] s = "amounts" -> AmountPages
      [] s = "periods" -> PeriodPages
      [] s = "batch" -> BatchPages

(***************************************************************************)
(* State.                                                                  *)
(***************************************************************************)
VARIABLES
    prog,                  \* the script that runs: "dividend_parser" or "parse_all_dividends"
    site,                  \* which pages the site serves (see PagesOf)
    ticker_mappings,       \* metadata/ticker_mappings.json: ticker -> url path
    failed_tickers,        \* main: the ticker list
    idx,                   \* main: position of the loop in failed_tickers
    parsing_summary,       \* main: the summary record
    pc,                    \* position of the running script
    ticker,                \* get_dividend_history: its argument
    tables,                \* get_dividend_history: soup.find_all('table')
    ti,                    \* get_dividend_history: position of the table loop
    target_table,          \* get_dividend_history: index of the chosen table, 0 for None
    tr,                    \* get_dividend_history: position of the row loop
    rows,                  \* get_dividend_history: ordinary records
    preferred_rows,        \* get_dividend_history: preferred records
    has_preferred_shares,  \* get_dividend_history: the sticky flag
    error,                 \* get_dividend_history: the exception it caught, "" for none
    df,                    \* the DataFrame get_dividend_history returned (its records)
    fetched                \* the tickers whose page was requested so far

vars == <<prog, site, ticker_mappings, failed_tickers, idx, parsing_summary, pc, ticker,
          tables, ti, target_table, tr, rows, preferred_rows, has_preferred_shares,
          error, df, fetched>>

batchVars == <<failed_tickers, idx, parsing_summary>>
envVars == <<prog, site, ticker_mappings>>
localVars == <<tables, ti, target_table, tr, rows, preferred_rows, has_preferred_shares>>

\* the head of the ticker list of main
TickerList == <<"SBER", "FIVE", "TATN", "GAZA">>

\* str.upper() of a ticker
UpperTicker(t) == IF t = "five" THEN "FIVE" ELSE t

\* the url paths of a mapping: the site root (an empty path) and a page
UrlPaths == {"", "emitent"}

\* the mappings over a set of tickers: any subset of them, each with a url path
Mappings(T) == UNION { [D -> UrlPaths] : D \in SUBSET T }

EmptySummary == [success |-> <<>>, failed |-> <<>>, total_processed |-> 0,
                 success_count |-> 0, failed_count |-> 0]

\* the state before the script starts
InitWith(p, pgs, list, args) ==
    /\ prog = p
    /\ site = pgs
    /\ ticker_mappings \in Mappings({ list[k] : k \in 1..Len(list) } \cup { UpperTicker(a) : a \in args })
    /\ failed_tickers = list
    /\ idx = 1
    /\ parsing_summary = EmptySummary
    /\ pc = IF p = "dividend_parser" THEN "start" ELSE "main_loop"
    /\ ticker \in IF p = "dividend_parser" THEN args ELSE {""}
    /\ tables = <<>>
    /\ ti = 0
    /\ target_table = 0
    /\ tr = 0
    /\ rows = <<>>
    /\ preferred_rows = <<>>
    /\ has_preferred_shares = FALSE
    /\ error = ""
    /\ df = <<>>
    /\ fetched = <<>>

(***************************************************************************)
(* get_dividend_history.                                                   *)
(***************************************************************************)
\* the call: the locals of a fresh activation
EnterGdh(t) ==
    /\ ticker' = t
    /\ pc' = "gdh_lookup"
    /\ tables' = <<>>
    /\ ti' = 0
    /\ target_table' = 0
    /\ tr' = 0
    /\ rows' = <<>>
    /\ preferred_rows' = <<>>
    /\ has_preferred_shares' = FALSE
    /\ error' = ""

\* url_path = ticker_mappings.get(ticker.upper()); a missing or empty path raises
LookupTicker ==
    /\ pc = "gdh_lookup"
    /\ LET key == UpperTicker(ticker)
           url_path == IF key \in DOMAIN ticker_mappings THEN ticker_mappings[key] ELSE ""
       IN  IF url_path = ""
           THEN pc' = "gdh_except" /\ error' = "no url for ticker"
           ELSE pc' = "gdh_fetch" /\ error' = error
    /\ UNCHANGED <<envVars, batchVars, ticker, localVars, df, fetched>>

\* requests.get, raise_for_status, BeautifulSoup, find_all('table'): the site answers
\* with one of its pages, or the request fails
Fetch ==
    /\ pc = "gdh_fetch"
    /\ fetched' = Append(fetched, UpperTicker(ticker))
    /\ \/ \E doc \in PagesOf(site) :
            /\ tables' = doc
            /\ ti' = 1
            /\ pc' = "gdh_locate"
            /\ error' = error
       \/ /\ pc' = "gdh_except"
          /\ error' = "request failed"
          /\ UNCHANGED <<tables, ti>>
    /\ UNCHANGED <<envVars, batchVars, ticker, target_table, tr, rows, preferred_rows,
                   has_preferred_shares, df>>

\* one iteration of the table loop: a table without rows is passed over, the first
\* table with a keyword is taken (break), any other is passed over
ExamineTable ==
    /\ pc = "gdh_locate"
    /\ ti <= Len(tables)
    /\ IF tables[ti] # <<>> /\ HasKeyword(tables[ti])
       THEN /\ target_table' = ti
            /\ tr' = 1
            /\ pc' = "gdh_extract"
            /\ ti' = ti
       ELSE /\ ti' = ti + 1
            /\ UNCHANGED <<target_table, tr, pc>>
    /\ UNCHANGED <<envVars, batchVars, ticker, tables, rows, preferred_rows,
                   has_preferred_shares, error, df, fetched>>

\* the table loop ended without a break: target_table is None, ValueError is raised
NoTable ==
    /\ pc = "gdh_locate"
    /\ ti > Len(tables)
    /\ pc' = "gdh_except"
    /\ error' = "no dividend table"
    /\ UNCHANGED <<envVars, batchVars, ticker, localVars, df, fetched>>

\* the assignments of one iteration of the row loop, from the row's effect
ApplyRow(cells, eff) ==
    /\ has_preferred_shares' = (has_preferred_shares \/ Len(cells) >= 3)
    /\ rows' = IF eff.ord = "append" THEN Append(rows, eff.ordrec) ELSE rows
    /\ preferred_rows' = IF eff.pref = "append"
                         THEN Append(preferred_rows, eff.prefrec)
                         ELSE preferred_rows
    /\ IF eff.ord = "raise" \/ eff.pref = "raise"
       THEN pc' = "gdh_except" /\ error' = "ValueError" /\ tr' = tr
       ELSE pc' = pc /\ error' = error /\ tr' = tr + 1

\* one iteration of the row loop
ProcessRow ==
    /\ pc = "gdh_extract"
    /\ tr <= Len(tables[target_table])
    /\ ApplyRow(tables[target_table][tr],
                RowEffect(tables[target_table][tr], has_preferred_shares))
    /\ UNCHANGED <<envVars, batchVars, ticker, tables, ti, target_table, df, fetched>>

\* after the row loop: both frames are sorted by year, the non-empty ones are written
\* to data/<TICKER>.csv and data/<TICKER>P.csv, the ordinary frame is returned; a
\* write that fails raises
Finish ==
    /\ pc = "gdh_extract"
    /\ tr > Len(tables[target_table])
    /\ \/ /\ df' = SortByYearDesc(rows)
          /\ pc' = "returned"
          /\ error' = error
       \/ /\ rows # <<>> \/ preferred_rows # <<>>
          /\ pc' = "gdh_except"
          /\ error' = "OSError"
          /\ df' = df
    /\ UNCHANGED <<envVars, batchVars, ticker, localVars, fetched>>

\* except Exception: the error is printed and an empty DataFrame is returned
Except ==
    /\ pc = "gdh_except"
    /\ df' = <<>>
    /\ pc' = "returned"
    /\ UNCHANGED <<envVars, batchVars, ticker, localVars, error, fetched>>

Gdh == LookupTicker \/ Fetch \/ ExamineTable \/ NoTable \/ ProcessRow \/ Finish \/ Except

(***************************************************************************)
(* dividend_parser.py run as a script: one call for the ticker of argv.    *)
(***************************************************************************)
CliCall ==
    /\ prog = "dividend_parser"
    /\ pc = "start"
    /\ EnterGdh(ticker)
    /\ UNCHANGED <<envVars, batchVars, df, fetched>>

\* the history, or the no-data message, is printed
CliReport ==
    /\ prog = "dividend_parser"
    /\ pc = "returned"
    /\ pc' = "done"
    /\ UNCHANGED <<envVars, batchVars, ticker, localVars, error, df, fetched>>

CliInit == InitWith("dividend_parser", "history", <<>>, {"five"})

Next == CliCall \/ Gdh \/ CliReport

Spec == CliInit /\ [][Next]_vars

\* the same script against pages of amounts, and against pages of periods
AmountInit == InitWith("dividend_parser", "amounts", <<>>, {"five"})
SpecAmount == AmountInit /\ [][Next]_vars

PeriodInit == InitWith("dividend_parser", "periods", <<>>, {"five"})
SpecPeriod == PeriodInit /\ [][Next]_vars

(***************************************************************************)
(* parse_all_dividends.py: main, the batch run over failed_tickers.        *)
(***************************************************************************)
\* the summary with the failure left out (a variant of RecordFailed against which
\* the property of C9 is tested)
ForgetFailed(summary, t, e) == summary

\* parsing_summary['failed'].append({...}); parsing_summary['failed_count'] += 1
RecordFailed(summary, t, e) ==
    [summary EXCEPT !.failed = Append(@, [ticker |-> t, error |-> e]),
                    !.failed_count = @ + 1]

\* parsing_summary['success'].append(ticker); parsing_summary['success_count'] += 1
RecordSuccess(summary, t) ==
    [summary EXCEPT !.success = Append(@, t), !.success_count = @ + 1]

\* parsing_summary['total_processed'] += 1, at the end of the loop body
CountProcessed(summary) == [summary EXCEPT !.total_processed = @ + 1]

\* the head of the loop body: a ticker that is not in the mapping is recorded as
\* failed and the loop continues; any other is passed to get_dividend_history
MainNext ==
    /\ prog = "parse_all_dividends"
    /\ pc = "main_loop"
    /\ idx <= Len(failed_tickers)
    /\ IF failed_tickers[idx] \notin DOMAIN ticker_mappings
       THEN /\ parsing_summary' = RecordFailed(parsing_summary, failed_tickers[idx],
                                               "not in the mapping")
            /\ idx' = idx + 1
            /\ UNCHANGED <<pc, ticker, localVars, error>>
       ELSE /\ EnterGdh(failed_tickers[idx])
            /\ UNCHANGED <<idx, parsing_summary>>
    /\ UNCHANGED <<envVars, failed_tickers, df, fetched>>

\* the rest of the loop body, after get_dividend_history returned: a non-empty frame
\* is written to data/<ticker>.csv and the ticker recorded as a success, or the write
\* raises and the except branch records the failure; an empty frame is recorded as
\* failed with "no data"
MainHandle ==
    /\ prog = "parse_all_dividends"
    /\ pc = "returned"
    /\ \/ /\ df # <<>>
          /\ parsing_summary' = CountProcessed(RecordSuccess(parsing_summary, ticker))
       \/ /\ df # <<>>
          /\ parsing_summary' = CountProcessed(RecordFailed(parsing_summary, ticker, "OSError"))
       \/ /\ df = <<>>
          /\ parsing_summary' = CountProcessed(RecordFailed(parsing_summary, ticker, "no data"))
    /\ idx' = idx + 1
    /\ pc' = "main_loop"
    /\ UNCHANGED <<envVars, failed_tickers, ticker, localVars, error, df, fetched>>

\* the loop is over: the summary is written and printed
MainDone ==
    /\ prog = "parse_all_dividends"
    /\ pc = "main_loop"
    /\ idx > Len(failed_tickers)
    /\ pc' = "done"
    /\ UNCHANGED <<envVars, batchVars, ticker, localVars, error, df, fetched>>

BatchInit == InitWith("parse_all_dividends", "batch", SubSeq(TickerList, 1, MaxTickers), {})

BatchNext == MainNext \/ Gdh \/ MainHandle \/ MainDone

BatchSpec == BatchInit /\ [][BatchNext]_vars

\* the states in which the table loop, and the row loop, has an iteration to run:
\* ExamineTable and ProcessRow are enabled in exactly these states
TableLoopRuns == pc = "gdh_locate" /\ ti <= Len(tables)
RowLoopRuns == pc = "gdh_extract" /\ tr <= Len(tables[target_table])

\* the script is sequential and runs on: every step is taken when it can be.  Weak
\* fairness of each step; for the two loop iterations it is written out, with the
\* enabling condition as the state predicate above.
BatchFairSpec ==
    /\ BatchSpec
    /\ WF_vars(MainNext) /\ WF_vars(MainHandle) /\ WF_vars(MainDone)
    /\ WF_vars(LookupTicker) /\ WF_vars(Fetch) /\ WF_vars(NoTable)
    /\ WF_vars(Finish) /\ WF_vars(Except)
    /\ ([]<>~TableLoopRuns \/ []<><<ExamineTable>>_vars)
    /\ ([]<>~RowLoopRuns \/ []<><<ProcessRow>>_vars)

(***************************************************************************)
(* Properties.                                                             *)
(***************************************************************************)
\* the table whose rows are read, and the row the row loop is at
TargetTable == tables[target_table]
AtRow == pc = "gdh_extract" /\ tr <= Len(TargetTable)
CurrentRow == TargetTable[tr]

\* the parsed cells of a row
PeriodIn(cells) == ParsePeriod(cells[1])
OrdinaryIn(cells) == ParseAmount(Strip(cells[2]))
PreferredIn(cells) == ParseAmount(Strip(cells[3]))

\* a row that is read, with a year: no header, no total, a year resolved
IsYearRow(cells) ==
    /\ Len(cells) >= 2
    /\ ~PeriodIn(cells).header
    /\ ~PeriodIn(cells).total
    /\ PeriodIn(cells).year # NoYear

\* C1: in every step of the row loop on a row of three or more cells whose period
\* cell resolves a year and whose ordinary cell parses, while the preferred cell
\* holds neither the sentinel nor a number, the ordinary record of the row is
\* appended to the ordinary sequence and nothing is appended to the preferred one.
C1_PreferredFailureKeepsOrdinary ==
    [][ ( /\ AtRow
          /\ Len(CurrentRow) >= 3
          /\ IsYearRow(CurrentRow)
          /\ OrdinaryIn(CurrentRow).kind = "value"
          /\ PreferredIn(CurrentRow).kind = "drop" )
        => ( /\ Len(rows') = Len(rows) + 1
             /\ rows'[Len(rows')].year = IntOf(PeriodIn(CurrentRow).year)
             /\ rows'[Len(rows')].dividend_value = OrdinaryIn(CurrentRow).value
             /\ preferred_rows' = preferred_rows ) ]_vars

\* C2: in every step of the row loop on a row of three or more cells whose period
\* cell resolves a year and whose ordinary cell is unparseable, nothing is appended
\* to the ordinary sequence, and a preferred record is appended whenever the
\* preferred cell parses.
C2_OrdinaryFailureKeepsPreferred ==
    [][ ( /\ AtRow
          /\ Len(CurrentRow) >= 3
          /\ IsYearRow(CurrentRow)
          /\ OrdinaryIn(CurrentRow).kind = "drop"
          /\ PreferredIn(CurrentRow).kind = "value" )
        => ( /\ rows' = rows
             /\ Len(preferred_rows') = Len(preferred_rows) + 1
             /\ preferred_rows'[Len(preferred_rows')].dividend_value
                  = PreferredIn(CurrentRow).value ) ]_vars

\* a row whose closing-date candidate is no calendar date, with a year and an amount
IsBadDateRow(cells) ==
    /\ IsYearRow(cells)
    /\ DateRaises(PeriodIn(cells).closing_date)
    /\ OrdinaryIn(cells).kind = "value"

\* a row with a year, an amount and a date that parses, or no date
IsGoodRow(cells) ==
    /\ IsYearRow(cells)
    /\ ~DateRaises(PeriodIn(cells).closing_date)
    /\ OrdinaryIn(cells).kind = "value"

InFrame(r) == \E k \in 1..Len(df) : df[k] = r

\* C3: when get_dividend_history has returned from a table it found (no request and
\* no file write having failed), every row with an impossible closing date and a
\* year is in the returned frame with a null closing_date, and so is the record of
\* every other row of the table: the rows before it and the rows after it.
C3_BadDateRowKeptOthersReturned ==
    ( /\ pc = "returned"
      /\ target_table # 0
      /\ error \in {"", "ValueError"}
      /\ \E k \in 1..Len(TargetTable) : IsBadDateRow(TargetTable[k]) )
    => \A k \in 1..Len(TargetTable) :
          /\ IsBadDateRow(TargetTable[k]) =>
                InFrame([RowRecord(PeriodIn(TargetTable[k]), OrdinaryIn(TargetTable[k]))
                            EXCEPT !.closing_date = NoDate])
          /\ IsGoodRow(TargetTable[k]) =>
                InFrame(RowRecord(PeriodIn(TargetTable[k]), OrdinaryIn(TargetTable[k])))

\* the document held no table with a keyword (TableNotFound)
TableNotFound == error = "no dividend table"

\* the dividend table was found and read to its end, and gave no ordinary record
\* (EmptyResult)
EmptyResult == target_table # 0 /\ error = "" /\ rows = <<>> /\ tr > Len(TargetTable)

\* the batch run is between two tickers, the last call of get_dividend_history being
\* the one for ticker
BetweenTickers == prog = "parse_all_dividends" /\ pc \in {"main_loop", "done"}

\* what the caller has of a call: the returned frame and the error recorded for it
Outcome(entry) == [frame |-> df, recorded |-> entry.error]

\* the outcome of an empty result: an empty frame, recorded as "no data"
EmptyOutcome == [frame |-> <<>>, recorded |-> "no data"]

\* C4: for the entry that the batch run recorded in parsing_summary['failed'] for the
\* ticker of the last call, an empty result has the outcome of an empty frame recorded
\* as "no data", and a document without a dividend table has another outcome.
C4_TableNotFoundDistinctFromEmpty ==
    \A k \in 1..Len(parsing_summary.failed) :
        ( BetweenTickers /\ parsing_summary.failed[k].ticker = ticker )
        => /\ EmptyResult => Outcome(parsing_summary.failed[k]) = EmptyOutcome
           /\ TableNotFound => Outcome(parsing_summary.failed[k]) # EmptyOutcome

\* the number written in a cell of NumberCells: the currency suffix and the spaces
\* taken away, the comma read as the decimal point
WholeNumber(cell) ==
    FloatOf(Replace(Replace(Replace(cell, CurrencySuffix, <<>>), <<" ">>, <<>>),
                    <<",">>, <<".">>))

\* get_dividend_history has returned from a table it found, no file write having failed
ReturnedFromTable == pc = "returned" /\ target_table # 0 /\ error \in {"", "ValueError"}

\* C5: when get_dividend_history has returned from a table whose data row holds, in
\* its ordinary cell, one number (thousands groups after single spaces, a decimal
\* comma, the currency suffix, each optional), the returned frame holds one record
\* whose dividend_value is that whole number.
C5_AmountIsWholeNumber ==
    ( /\ ReturnedFromTable
      /\ Len(TargetTable) = 2
      /\ TargetTable[2][2] \in NumberCells )
    => /\ Len(df) = 1
       /\ df[1].dividend_value = WholeNumber(TargetTable[2][2])

\* the period cell of the one data row of the table that was read
PeriodCell == TargetTable[2][1]

\* C6: when get_dividend_history has returned from a table whose data row holds, in
\* its period cell, a closing date D.MM.Y1 (labelled or bare) and a separate payment
\* year Y2 other than Y1, the returned frame holds one record, its closing_date that
\* date and its year Y2.
C6_DateYearNeverLeaks ==
    \A c \in PeriodCases :
        ( /\ pc = "returned"
          /\ target_table # 0
          /\ error # "OSError"
          /\ PeriodCell = c.cell )
        => /\ Len(df) = 1
           /\ df[1].closing_date = c.date
           /\ df[1].year = c.year

\* the example of C6: "zakrytie reestra 9.07.2025 2024" gave 2025-07-09 and 2024
C6_Witness ==
    /\ pc = "returned"
    /\ target_table # 0
    /\ PeriodCell = ClosingLabel \o <<"9", ".", "0", "7", ".", "2", "0", "2", "5", " ", "2", "0", "2", "4">>
    /\ Len(df) = 1
    /\ df[1].closing_date = <<9, 7, 2025>>
    /\ df[1].year = 2024

\* a record with a year of four digits and an amount that is not negative
IsValidRecord(r) == r.year \in 1000..9999 /\ r.dividend_value.num >= 0

\* a period cell without any run of four digits
HasNoFourDigits(cell) == \A i \in 1..Len(cell) : ~AllDigits(cell, i, 4)

\* C7: after every step, every record of the ordinary and of the preferred sequence
\* has a year of four digits and a dividend_value >= 0; and a step of the row loop on
\* a row whose period cell holds no run of four digits appends nothing to either
\* sequence and goes on to the next row.
C7_RecordsValidNoYearRowsDropped ==
    [][ /\ \A k \in 1..Len(rows') : IsValidRecord(rows'[k])
        /\ \A k \in 1..Len(preferred_rows') : IsValidRecord(preferred_rows'[k])
        /\ ( /\ AtRow
             /\ Len(CurrentRow) >= 2
             /\ HasNoFourDigits(CurrentRow[1]) )
           => ( /\ rows' = rows
                /\ preferred_rows' = preferred_rows
                /\ tr' = tr + 1
                /\ pc' = pc ) ]_vars

\* C8: in every step of the row loop on a row with a year, an ordinary cell with the
\* sentinel appends a record of dividend_value 0.0 to the ordinary sequence, and a
\* preferred cell with the sentinel appends one to the preferred sequence.
C8_SentinelAlwaysZeroRecord ==
    [][ ( AtRow /\ IsYearRow(CurrentRow) )
        => /\ IsSentinel(Strip(CurrentRow[2]))
                => /\ Len(rows') = Len(rows) + 1
                   /\ rows'[Len(rows')].dividend_value = Zero
           /\ ( Len(CurrentRow) >= 3 /\ IsSentinel(Strip(CurrentRow[3])) )
                => /\ Len(preferred_rows') = Len(preferred_rows) + 1
                   /\ preferred_rows'[Len(preferred_rows')].dividend_value = Zero ]_vars

\* how often ticker t is recorded in the summary, as a success or as a failure
TimesRecorded(t) ==
    Cardinality({ k \in 1..Len(parsing_summary.success) : parsing_summary.success[k] = t })
    + Cardinality({ k \in 1..Len(parsing_summary.failed) : parsing_summary.failed[k].ticker = t })

\* every ticker of the list is recorded exactly once
EachRecordedOnce == \A k \in 1..Len(failed_tickers) : TimesRecorded(failed_tickers[k]) = 1

\* C9: whatever the mapping and the pages, the batch run reaches the end of its list
\* and stays there, every listed ticker then recorded exactly once, in 'success' or in
\* 'failed'.
C9_BatchReachesEndEachOnce == <>[](pc = "done" /\ EachRecordedOnce)

\* the run is over, its first ticker recorded as failed and a later one as a success
C9_Witness ==
    /\ pc = "done"
    /\ parsing_summary.failed # <<>>
    /\ parsing_summary.failed[1].ticker = failed_tickers[1]
    /\ parsing_summary.success # <<>>
    /\ EachRecordedOnce

\* the lower-cased text of the rows of a table holds a keyword
Matches(table) ==
    \E kw \in Keywords :
        Contains(Lower(JoinSpace([k \in 1..Len(table) |-> Strip(Concat(table[k]))])), kw)

\* the tables of the document are examined, or were
Located == pc \in {"gdh_locate", "gdh_extract", "gdh_except", "returned"} /\ ti >= 1

\* no ticker is requested twice
NoRetry == \A i, j \in 1..Len(fetched) : fetched[i] = fetched[j] => i = j

\* C10: the tables are examined in document order: every table passed over does not
\* match; the table selected matches and no table before it does; when no table
\* matches, the extraction ends with the "no dividend table" error and without any
\* record; and no ticker is requested a second time.
C10_FirstMatchingTableSelected ==
    /\ NoRetry
    /\ Located =>
        /\ \A k \in 1..(ti - 1) : k <= Len(tables) => ~Matches(tables[k])
        /\ target_table # 0 =>
              /\ target_table = ti
              /\ Matches(tables[target_table])
        /\ ( pc \in {"gdh_extract", "returned"} /\ error = "" ) => target_table # 0
        /\ ( pc = "returned" /\ \A k \in 1..Len(tables) : ~Matches(tables[k]) ) =>
              /\ TableNotFound
              /\ target_table = 0
              /\ rows = <<>> /\ preferred_rows = <<>> /\ df = <<>>
        /\ TableNotFound => \A k \in 1..Len(tables) : ~Matches(tables[k])

\* the second table of a document was selected, the first holding no keyword and
\* the second holding one only in capitals
C10_Witness ==
    /\ pc = "gdh_extract"
    /\ Len(tables) = 2
    /\ tables[1] = OtherTable
    /\ tables[2] = UpperTable
    /\ target_table = 2

\* C11: when the loop of main has finished, total_processed equals success_count +
\* failed_count and equals the number of tickers of the list, success_count is the
\* length of 'success' and failed_count the length of 'failed'.
C11_CountersConsistentAtEnd ==
    ( prog = "parse_all_dividends" /\ pc = "done" )
    => /\ parsing_summary.total_processed
            = parsing_summary.success_count + parsing_summary.failed_count
       /\ parsing_summary.total_processed = Len(failed_tickers)
       /\ parsing_summary.success_count = Len(parsing_summary.success)
       /\ parsing_summary.failed_count = Len(parsing_summary.failed)

====
